---- MODULE Spec2Model ----
(***************************************************************************)
(* Identifier interning of src/service/rooms/short/data.rs: four tables    *)
(* (event id, state key, room id, state hash) that map long identifiers to *)
(* 64-bit short ids drawn from one shared counter.  Every store operation  *)
(* (get, multi_get, insert) and every next_count is one atomic step of a   *)
(* caller; callers interleave freely, the code takes no lock.              *)
(***************************************************************************)
EXTENDS Integers, Sequences, FiniteSets, TLC

(* ------------------------------ bounds -------------------------------- *)
NumCallers == 2
MaxCount == 2
MaxBatch == 2

(* ------------------------- identifiers (bytes) ------------------------ *)
\* "$a", "$b"
EventIds == {<<36, 97>>, <<36, 98>>}
\* "m"  (a String: valid UTF-8, so the byte 0xFF cannot occur in it)
EventTypes == {<<109>>}
\* "", "@"
StateKeys == {<<>>, <<64>>}
\* "!r"
RoomIds == {<<33, 114>>}
\* raw hash bytes
StateHashes == {<<255, 7>>}

Callers == 1..NumCallers
Shorts == 1..MaxCount

BoundedSeq(S, n) == UNION {[1..k -> S] : k \in 0..n}
Batches == BoundedSeq(EventIds, MaxBatch)

(* ----------------------------- byte helpers --------------------------- *)
\* n >> (8 * k)
RECURSIVE ShiftRightBytes(_, _)
ShiftRightBytes(n, k) == IF k = 0 THEN n ELSE ShiftRightBytes(n \div 256, k - 1)

\* u64::to_be_bytes: eight bytes, most significant first
to_be_bytes(n) == [i \in 1..8 |-> ShiftRightBytes(n, 8 - i) % 256]

\* u64::from_be_bytes
RECURSIVE BeValue(_)
BeValue(b) == IF Len(b) = 0 THEN 0
              ELSE 256 * BeValue(SubSeq(b, 1, Len(b) - 1)) + b[Len(b)]

Ok(v) == [tag |-> "ok", val |-> v]
Err(e) == [tag |-> "err", err |-> e]
NoRet == [tag |-> "none"]
IsOk(r) == r.tag = "ok"
IsErr(r) == r.tag = "err"

\* utils::u64_from_bytes: the slice must be exactly 8 bytes long
u64_from_bytes(b) == IF Len(b) = 8 THEN Ok(BeValue(b)) ELSE Err("TryFromSlice")

\* utils::string_from_bytes: String::from_utf8 (bytes below 0x80 are the
\* valid single-byte sequences; 0xFF is never valid)
string_from_bytes(b) == IF \A i \in 1..Len(b) : b[i] < 128 THEN Ok(b) ELSE Err("Utf8")

\* EventId::parse_arc: an event id starts with the sigil '$'
parse_event_id(s) == IF Len(s) >= 1 /\ s[1] = 36 THEN Ok(s) ELSE Err("Parse")

(* ------------------------------- store -------------------------------- *)
MapNames == {"eventid_shorteventid", "shorteventid_eventid",
             "statekey_shortstatekey", "shortstatekey_statekey",
             "roomid_shortroomid", "statehash_shortstatehash"}

EmptyMap == <<>>

Some(v) == [some |-> TRUE, bytes |-> v]
None == [some |-> FALSE]

\* Map::get
MapGet(m, k) == IF k \in DOMAIN m THEN Some(m[k]) ELSE None

\* Map::multi_get: one result per key, in the order of the keys
MapMultiGet(m, ks) == [i \in 1..Len(ks) |-> MapGet(m, ks[i])]

\* Map::insert: put, replacing any value stored under the key
MapInsert(m, k, v) == [x \in (DOMAIN m) \cup {k} |-> IF x = k THEN v ELSE m[x]]

(* ------------------------------- state -------------------------------- *)
\* db       the six maps of Data, by name
\* count    the value next_count returned last
\* calls    per caller, the call in progress: program point and locals;
\*          seen collects the short ids that calls of the same function on
\*          the same key returned while this call was in progress
\* last     the call that returned in the step that led to this state, with
\*          its result (NoCall after a step in which no call returned)
\* serial   whether the callers make their calls one at a time (set once)
VARIABLES db, count, calls, last, serial

vars == <<db, count, calls, last, serial>>

IdleCall == [pc |-> "idle", op |-> "none", arg |-> <<>>, key |-> <<>>,
             short |-> 0, i |-> 0, got |-> <<>>, acc |-> <<>>, seen |-> {}]

NoCall == [op |-> "none", arg |-> <<>>, ret |-> NoRet]

Init ==
    /\ db = [n \in MapNames |-> EmptyMap]
    /\ count = 0
    /\ calls = [p \in Callers |-> IdleCall]
    /\ last = NoCall
    /\ serial = FALSE

\* the same store with callers that make one call at a time
InitSeq ==
    /\ db = [n \in MapNames |-> EmptyMap]
    /\ count = 0
    /\ calls = [p \in Callers |-> IdleCall]
    /\ last = NoCall
    /\ serial = TRUE

Idle(p) == calls[p].pc = "idle"

\* caller p may start a call
CanStart(p) == Idle(p) /\ (serial => \A q \in Callers : Idle(q))

InProgress(p) == ~Idle(p)

\* a call that ends with result r
Finish(p, op, arg, r) ==
    /\ calls' = [calls EXCEPT ![p] = IdleCall]
    /\ last' = [op |-> op, arg |-> arg, ret |-> r]

\* the call goes on to its miss branch at program point pc
Goto(p, op, arg, key, pc) ==
    /\ calls' = [calls EXCEPT ![p] =
                [IdleCall EXCEPT !.pc = pc, !.op = op, !.arg = arg, !.key = key]]
    /\ last' = NoCall

\* a get_or_create on key that ends with Ok: val is the value handed to the
\* caller, short the short id in it
Return(p, op, arg, key, short, val) ==
    /\ calls' = [q \in Callers |->
                 IF q = p THEN IdleCall
                 ELSE IF InProgress(q) /\ calls[q].op = op /\ calls[q].key = key
                      THEN [calls[q] EXCEPT !.seen = @ \cup {short}]
                      ELSE calls[q]]
    /\ last' = [op |-> op, arg |-> arg, ret |-> Ok(val)]

At(p, op, pc) == calls[p].op = op /\ calls[p].pc = pc

(* ------------------------------ counter ------------------------------- *)
\* globals.next_count(): a value never returned before
next_count(p) ==
    /\ count < MaxCount
    /\ count' = count + 1
    /\ calls' = [calls EXCEPT ![p].short = count + 1, ![p].pc = "insert_forward"]
    /\ last' = NoCall

(* ----------------------- get_or_create_shorteventid ------------------- *)
\* the lookup made in the reverse map: an event id is never a key of it
get_or_create_shorteventid_get_reverse_map(p, event_id) ==
    /\ CanStart(p)
    /\ LET op == "get_or_create_shorteventid"
           found == MapGet(db["shorteventid_eventid"], event_id)
           short == u64_from_bytes(found.bytes)
       IN  IF found.some
           THEN IF IsOk(short)
                THEN Return(p, op, event_id, event_id, short.val, short.val)
                ELSE Finish(p, op, event_id, Err("BadDatabase"))
           ELSE Goto(p, op, event_id, event_id, "next_count")
    /\ UNCHANGED <<db, count, serial>>

\* the stored value decoded whatever its length
get_or_create_shorteventid_get_any_length(p, event_id) ==
    /\ CanStart(p)
    /\ LET op == "get_or_create_shorteventid"
           found == MapGet(db["eventid_shorteventid"], event_id)
       IN  IF found.some
           THEN Return(p, op, event_id, event_id, BeValue(found.bytes), BeValue(found.bytes))
           ELSE Goto(p, op, event_id, event_id, "next_count")
    /\ UNCHANGED <<db, count, serial>>

get_or_create_shorteventid_get(p, event_id) ==
    /\ CanStart(p)
    /\ LET op == "get_or_create_shorteventid"
           found == MapGet(db["eventid_shorteventid"], event_id)
           short == u64_from_bytes(found.bytes)
       IN  IF found.some
           THEN IF IsOk(short)
                THEN Return(p, op, event_id, event_id, short.val, short.val)
                ELSE Finish(p, op, event_id, Err("BadDatabase"))
           ELSE Goto(p, op, event_id, event_id, "next_count")
    /\ UNCHANGED <<db, count, serial>>

get_or_create_shorteventid_next_count(p) ==
    /\ At(p, "get_or_create_shorteventid", "next_count")
    /\ next_count(p)
    /\ UNCHANGED <<db, serial>>

get_or_create_shorteventid_insert_forward(p) ==
    /\ At(p, "get_or_create_shorteventid", "insert_forward")
    /\ db' = [db EXCEPT !["eventid_shorteventid"] =
                MapInsert(@, calls[p].key, to_be_bytes(calls[p].short))]
    /\ calls' = [calls EXCEPT ![p].pc = "insert_reverse"]
    /\ last' = NoCall
    /\ UNCHANGED <<count, serial>>

get_or_create_shorteventid_insert_reverse(p) ==
    /\ At(p, "get_or_create_shorteventid", "insert_reverse")
    /\ db' = [db EXCEPT !["shorteventid_eventid"] =
                MapInsert(@, to_be_bytes(calls[p].short), calls[p].key)]
    /\ Return(p, calls[p].op, calls[p].arg, calls[p].key, calls[p].short, calls[p].short)
    /\ UNCHANGED <<count, serial>>

(* ------------------------- get_eventid_from_short --------------------- *)
\* the value the function returns when the reverse map is map
eventid_from(map, shorteventid) ==
    LET found == MapGet(map, to_be_bytes(shorteventid))
        str == string_from_bytes(found.bytes)
    IN  IF ~found.some THEN Err("BadDatabase")
        ELSE IF IsErr(str) THEN Err("BadDatabase")
        ELSE IF IsErr(parse_event_id(str.val)) THEN Err("BadDatabase")
        ELSE Ok(parse_event_id(str.val).val)

\* the value the function returns in the current state
eventid_from_short(shorteventid) == eventid_from(db["shorteventid_eventid"], shorteventid)

get_eventid_from_short(p, shorteventid) ==
    /\ CanStart(p)
    /\ Finish(p, "get_eventid_from_short", shorteventid, eventid_from_short(shorteventid))
    /\ UNCHANGED <<db, count, serial>>

(* ------------------- multi_get_or_create_shorteventid ----------------- *)
\* The loop over the multi_get results from position i on, up to the next
\* store access: every hit is decoded and pushed; the loop stops at the first
\* miss (at), at a value that does not decode (bad), or past the end.
RECURSIVE multi_loop(_, _, _)
multi_loop(got, i, ret) ==
    IF i > Len(got) THEN [at |-> i, ret |-> ret, bad |-> FALSE]
    ELSE IF ~got[i].some THEN [at |-> i, ret |-> ret, bad |-> FALSE]
    ELSE IF IsErr(u64_from_bytes(got[i].bytes)) THEN [at |-> i, ret |-> ret, bad |-> TRUE]
    ELSE multi_loop(got, i + 1, Append(ret, u64_from_bytes(got[i].bytes).val))

\* the call after the loop ran from position i with the results ret so far
multi_continue(p, event_ids, got, i, ret) ==
    LET op == "multi_get_or_create_shorteventid"
        l == multi_loop(got, i, ret)
    IN  IF l.bad THEN Finish(p, op, event_ids, Err("BadDatabase"))
        ELSE IF l.at > Len(got) THEN Finish(p, op, event_ids, Ok(l.ret))
        ELSE /\ calls' = [calls EXCEPT ![p] =
                   [IdleCall EXCEPT !.pc = "next_count", !.op = op, !.arg = event_ids,
                                    !.key = event_ids[l.at], !.i = l.at,
                                    !.got = got, !.acc = l.ret]]
             /\ last' = NoCall

multi_get_or_create_shorteventid_multi_get(p, event_ids) ==
    /\ CanStart(p)
    /\ multi_continue(p, event_ids, MapMultiGet(db["eventid_shorteventid"], event_ids), 1, <<>>)
    /\ UNCHANGED <<db, count, serial>>

multi_get_or_create_shorteventid_next_count(p) ==
    /\ At(p, "multi_get_or_create_shorteventid", "next_count")
    /\ next_count(p)
    /\ UNCHANGED <<db, serial>>

multi_get_or_create_shorteventid_insert_forward(p) ==
    /\ At(p, "multi_get_or_create_shorteventid", "insert_forward")
    /\ db' = [db EXCEPT !["eventid_shorteventid"] =
                MapInsert(@, calls[p].key, to_be_bytes(calls[p].short))]
    /\ calls' = [calls EXCEPT ![p].pc = "insert_reverse"]
    /\ last' = NoCall
    /\ UNCHANGED <<count, serial>>

multi_get_or_create_shorteventid_insert_reverse(p) ==
    /\ At(p, "multi_get_or_create_shorteventid", "insert_reverse")
    /\ db' = [db EXCEPT !["shorteventid_eventid"] =
                MapInsert(@, to_be_bytes(calls[p].short), calls[p].key)]
    /\ multi_continue(p, calls[p].arg, calls[p].got, calls[p].i + 1,
                      Append(calls[p].acc, calls[p].short))
    /\ UNCHANGED <<count, serial>>

(* ------------------------------ state keys ---------------------------- *)
\* event_type.to_string() bytes, 0xFF, state_key bytes
statekey_vec(event_type, state_key) == event_type \o <<255>> \o state_key

shortstatekey(event_type, state_key) ==
    LET found == MapGet(db["statekey_shortstatekey"], statekey_vec(event_type, state_key))
        short == u64_from_bytes(found.bytes)
    IN  IF ~found.some THEN Ok(<<>>)
        ELSE IF IsErr(short) THEN Err("BadDatabase")
        ELSE Ok(<<short.val>>)

get_shortstatekey(p, event_type, state_key) ==
    /\ CanStart(p)
    /\ Finish(p, "get_shortstatekey", <<event_type, state_key>>,
              shortstatekey(event_type, state_key))
    /\ UNCHANGED <<db, count, serial>>

get_or_create_shortstatekey_get(p, event_type, state_key) ==
    /\ CanStart(p)
    /\ LET op == "get_or_create_shortstatekey"
           arg == <<event_type, state_key>>
           key == statekey_vec(event_type, state_key)
           found == MapGet(db["statekey_shortstatekey"], key)
           short == u64_from_bytes(found.bytes)
       IN  IF found.some
           THEN IF IsOk(short)
                THEN Return(p, op, arg, key, short.val, short.val)
                ELSE Finish(p, op, arg, Err("BadDatabase"))
           ELSE Goto(p, op, arg, key, "next_count")
    /\ UNCHANGED <<db, count, serial>>

get_or_create_shortstatekey_next_count(p) ==
    /\ At(p, "get_or_create_shortstatekey", "next_count")
    /\ next_count(p)
    /\ UNCHANGED <<db, serial>>

\* the first write made to the reverse map
get_or_create_shortstatekey_insert_forward_to_reverse(p) ==
    /\ At(p, "get_or_create_shortstatekey", "insert_forward")
    /\ db' = [db EXCEPT !["shortstatekey_statekey"] =
                MapInsert(@, to_be_bytes(calls[p].short), calls[p].key)]
    /\ calls' = [calls EXCEPT ![p].pc = "insert_reverse"]
    /\ last' = NoCall
    /\ UNCHANGED <<count, serial>>

get_or_create_shortstatekey_insert_forward(p) ==
    /\ At(p, "get_or_create_shortstatekey", "insert_forward")
    /\ db' = [db EXCEPT !["statekey_shortstatekey"] =
                MapInsert(@, calls[p].key, to_be_bytes(calls[p].short))]
    /\ calls' = [calls EXCEPT ![p].pc = "insert_reverse"]
    /\ last' = NoCall
    /\ UNCHANGED <<count, serial>>

get_or_create_shortstatekey_insert_reverse(p) ==
    /\ At(p, "get_or_create_shortstatekey", "insert_reverse")
    /\ db' = [db EXCEPT !["shortstatekey_statekey"] =
                MapInsert(@, to_be_bytes(calls[p].short), calls[p].key)]
    /\ Return(p, calls[p].op, calls[p].arg, calls[p].key, calls[p].short, calls[p].short)
    /\ UNCHANGED <<count, serial>>

\* bytes.splitn(2, |b| b == 0xFF): position of the first 0xFF, 0 when absent
RECURSIVE first_delimiter(_, _)
first_delimiter(bytes, i) ==
    IF i > Len(bytes) THEN 0
    ELSE IF bytes[i] = 255 THEN i
    ELSE first_delimiter(bytes, i + 1)

splitn2(bytes) ==
    LET d == first_delimiter(bytes, 1)
    IN  IF d = 0 THEN <<bytes>>
        ELSE <<SubSeq(bytes, 1, d - 1), SubSeq(bytes, d + 1, Len(bytes))>>

statekey_from_short(short) ==
    LET found == MapGet(db["shortstatekey_statekey"], to_be_bytes(short))
        parts == splitn2(found.bytes)
        event_type == string_from_bytes(parts[1])
        state_key == string_from_bytes(parts[2])
    IN  IF ~found.some THEN Err("BadDatabase")
        ELSE IF Len(parts) < 2 THEN Err("BadDatabase")
        ELSE IF IsErr(event_type) THEN Err("BadDatabase")
        ELSE IF IsErr(state_key) THEN Err("BadDatabase")
        ELSE Ok(<<event_type.val, state_key.val>>)

get_statekey_from_short(p, short) ==
    /\ CanStart(p)
    /\ Finish(p, "get_statekey_from_short", short, statekey_from_short(short))
    /\ UNCHANGED <<db, count, serial>>

(* ------------------------------ state hashes -------------------------- *)
get_or_create_shortstatehash_get(p, state_hash) ==
    /\ CanStart(p)
    /\ LET op == "get_or_create_shortstatehash"
           found == MapGet(db["statehash_shortstatehash"], state_hash)
           short == u64_from_bytes(found.bytes)
       IN  IF found.some
           THEN IF IsOk(short)
                THEN Return(p, op, state_hash, state_hash, short.val, <<short.val, TRUE>>)
                ELSE Finish(p, op, state_hash, Err("BadDatabase"))
           ELSE Goto(p, op, state_hash, state_hash, "next_count")
    /\ UNCHANGED <<db, count, serial>>

get_or_create_shortstatehash_next_count(p) ==
    /\ At(p, "get_or_create_shortstatehash", "next_count")
    /\ next_count(p)
    /\ UNCHANGED <<db, serial>>

\* the new id returned with already_existed = true
get_or_create_shortstatehash_insert_existed(p) ==
    /\ At(p, "get_or_create_shortstatehash", "insert_forward")
    /\ db' = [db EXCEPT !["statehash_shortstatehash"] =
                MapInsert(@, calls[p].key, to_be_bytes(calls[p].short))]
    /\ Return(p, calls[p].op, calls[p].arg, calls[p].key, calls[p].short,
              <<calls[p].short, TRUE>>)
    /\ UNCHANGED <<count, serial>>

\* the new id also written to the reverse map of the state-key table
get_or_create_shortstatehash_insert_with_reverse(p) ==
    /\ At(p, "get_or_create_shortstatehash", "insert_forward")
    /\ db' = [db EXCEPT !["statehash_shortstatehash"] =
                MapInsert(@, calls[p].key, to_be_bytes(calls[p].short)),
                        !["shortstatekey_statekey"] =
                MapInsert(@, to_be_bytes(calls[p].short), calls[p].key)]
    /\ Return(p, calls[p].op, calls[p].arg, calls[p].key, calls[p].short,
              <<calls[p].short, FALSE>>)
    /\ UNCHANGED <<count, serial>>

get_or_create_shortstatehash_insert(p) ==
    /\ At(p, "get_or_create_shortstatehash", "insert_forward")
    /\ db' = [db EXCEPT !["statehash_shortstatehash"] =
                MapInsert(@, calls[p].key, to_be_bytes(calls[p].short))]
    /\ Return(p, calls[p].op, calls[p].arg, calls[p].key, calls[p].short,
              <<calls[p].short, FALSE>>)
    /\ UNCHANGED <<count, serial>>

(* -------------------------------- rooms ------------------------------- *)
shortroomid(room_id) ==
    LET found == MapGet(db["roomid_shortroomid"], room_id)
        short == u64_from_bytes(found.bytes)
    IN  IF ~found.some THEN Ok(<<>>)
        ELSE IF IsErr(short) THEN Err("BadDatabase")
        ELSE Ok(<<short.val>>)

\* the lookup interning the room id it does not find
get_shortroomid_creating(p, room_id) ==
    /\ CanStart(p)
    /\ IF room_id \in DOMAIN db["roomid_shortroomid"] \/ count >= MaxCount
       THEN /\ Finish(p, "get_shortroomid", room_id, shortroomid(room_id))
            /\ UNCHANGED <<db, count>>
       ELSE /\ count' = count + 1
            /\ db' = [db EXCEPT !["roomid_shortroomid"] =
                        MapInsert(@, room_id, to_be_bytes(count + 1))]
            /\ Finish(p, "get_shortroomid", room_id, Ok(<<count + 1>>))
    /\ UNCHANGED serial

get_shortroomid(p, room_id) ==
    /\ CanStart(p)
    /\ Finish(p, "get_shortroomid", room_id, shortroomid(room_id))
    /\ UNCHANGED <<db, count, serial>>

\* the forward entry reserved with a placeholder before the id is obtained
get_or_create_shortroomid_get_reserve(p, room_id) ==
    /\ CanStart(p)
    /\ LET op == "get_or_create_shortroomid"
           found == MapGet(db["roomid_shortroomid"], room_id)
           short == u64_from_bytes(found.bytes)
       IN  IF found.some
           THEN /\ IF IsOk(short)
                   THEN Return(p, op, room_id, room_id, short.val, short.val)
                   ELSE Finish(p, op, room_id, Err("BadDatabase"))
                /\ UNCHANGED db
           ELSE /\ Goto(p, op, room_id, room_id, "next_count")
                /\ db' = [db EXCEPT !["roomid_shortroomid"] =
                            MapInsert(@, room_id, to_be_bytes(0))]
    /\ UNCHANGED <<count, serial>>

get_or_create_shortroomid_get(p, room_id) ==
    /\ CanStart(p)
    /\ LET op == "get_or_create_shortroomid"
           found == MapGet(db["roomid_shortroomid"], room_id)
           short == u64_from_bytes(found.bytes)
       IN  IF found.some
           THEN IF IsOk(short)
                THEN Return(p, op, room_id, room_id, short.val, short.val)
                ELSE Finish(p, op, room_id, Err("BadDatabase"))
           ELSE Goto(p, op, room_id, room_id, "next_count")
    /\ UNCHANGED <<db, count, serial>>

get_or_create_shortroomid_next_count(p) ==
    /\ At(p, "get_or_create_shortroomid", "next_count")
    /\ next_count(p)
    /\ UNCHANGED <<db, serial>>

\* the room id numbered by a counter of the room-id table alone
get_or_create_shortroomid_insert_own_counter(p) ==
    /\ At(p, "get_or_create_shortroomid", "insert_forward")
    /\ LET short == Cardinality(DOMAIN db["roomid_shortroomid"]) + 1
       IN  /\ db' = [db EXCEPT !["roomid_shortroomid"] =
                       MapInsert(@, calls[p].key, to_be_bytes(short))]
           /\ Return(p, calls[p].op, calls[p].arg, calls[p].key, short, short)
    /\ UNCHANGED <<count, serial>>

get_or_create_shortroomid_insert(p) ==
    /\ At(p, "get_or_create_shortroomid", "insert_forward")
    /\ db' = [db EXCEPT !["roomid_shortroomid"] =
                MapInsert(@, calls[p].key, to_be_bytes(calls[p].short))]
    /\ Return(p, calls[p].op, calls[p].arg, calls[p].key, calls[p].short, calls[p].short)
    /\ UNCHANGED <<count, serial>>

(* ------------------------------ failures ------------------------------ *)
\* the store read a call of op starts with fails, whatever its argument:
\* the `?` after get / multi_get
get_fails(p, op) ==
    /\ CanStart(p)
    /\ Finish(p, op, <<>>, Err("Store"))
    /\ UNCHANGED <<db, count, serial>>

\* next_count fails: the `?` after next_count
next_count_fails(p) ==
    /\ calls[p].pc = "next_count"
    /\ Finish(p, calls[p].op, calls[p].arg, Err("Counter"))
    /\ UNCHANGED <<db, count, serial>>

\* a store write fails and writes nothing: the `?` after insert
insert_fails(p) ==
    /\ calls[p].pc \in {"insert_forward", "insert_reverse"}
    /\ Finish(p, calls[p].op, calls[p].arg, Err("Store"))
    /\ UNCHANGED <<db, count, serial>>

(* --------------------------- specifications --------------------------- *)
\* the steps of caller p in which every store and counter operation succeeds
Step(p) ==
    \/ \E x \in EventIds : get_or_create_shorteventid_get(p, x)
    \/ get_or_create_shorteventid_next_count(p)
    \/ get_or_create_shorteventid_insert_forward(p)
    \/ get_or_create_shorteventid_insert_reverse(p)
    \/ \E ids \in Batches : multi_get_or_create_shorteventid_multi_get(p, ids)
    \/ multi_get_or_create_shorteventid_next_count(p)
    \/ multi_get_or_create_shorteventid_insert_forward(p)
    \/ multi_get_or_create_shorteventid_insert_reverse(p)
    \/ \E t \in EventTypes, k \in StateKeys : get_shortstatekey(p, t, k)
    \/ \E t \in EventTypes, k \in StateKeys : get_or_create_shortstatekey_get(p, t, k)
    \/ get_or_create_shortstatekey_next_count(p)
    \/ get_or_create_shortstatekey_insert_forward(p)
    \/ get_or_create_shortstatekey_insert_reverse(p)
    \/ \E s \in Shorts : get_eventid_from_short(p, s)
    \/ \E s \in Shorts : get_statekey_from_short(p, s)
    \/ \E h \in StateHashes : get_or_create_shortstatehash_get(p, h)
    \/ get_or_create_shortstatehash_next_count(p)
    \/ get_or_create_shortstatehash_insert(p)
    \/ \E r \in RoomIds : get_shortroomid(p, r)
    \/ \E r \in RoomIds : get_or_create_shortroomid_get(p, r)
    \/ get_or_create_shortroomid_next_count(p)
    \/ get_or_create_shortroomid_insert(p)

\* the functions: every one starts with a store read
Functions == {"get_or_create_shorteventid", "multi_get_or_create_shorteventid",
              "get_shortstatekey", "get_or_create_shortstatekey",
              "get_eventid_from_short", "get_statekey_from_short",
              "get_or_create_shortstatehash",
              "get_shortroomid", "get_or_create_shortroomid"}

\* the steps of caller p in which a store or counter operation fails
Fails(p) ==
    \/ \E op \in Functions : get_fails(p, op)
    \/ next_count_fails(p)
    \/ insert_fails(p)

\* any number of callers, interleaved at every store and counter operation
Next == \E p \in Callers : Step(p) \/ Fails(p)

Spec == Init /\ [][Next]_vars

\* the same callers when no store or counter operation fails
NextOk == \E p \in Callers : Step(p)

SpecOk == Init /\ [][NextOk]_vars

\* one call at a time
SpecSeq == InitSeq /\ [][Next]_vars

(* --------------------------- corrupt stores --------------------------- *)
\* a value that is not 8 bytes long: 4 bytes in two of the forward maps,
\* 9 bytes in the other two
CorruptValue(n) ==
    IF n \in {"eventid_shorteventid", "roomid_shortroomid"}
    THEN <<0, 0, 0, 1>>
    ELSE <<0, 0, 0, 0, 0, 0, 0, 0, 1>>

\* the keys the functions look up in forward map n
ForwardKeys(n) ==
    CASE n = "eventid_shorteventid" -> EventIds
      [] n = "statekey_shortstatekey" ->
            {statekey_vec(t, k) : t \in EventTypes, k \in StateKeys}
      [] n = "roomid_shortroomid" -> RoomIds
      [] n = "statehash_shortstatehash" -> StateHashes

\* the tables, as sets of maps
Tables == {{"eventid_shorteventid", "shorteventid_eventid"},
           {"statekey_shortstatekey", "shortstatekey_statekey"},
           {"roomid_shortroomid"},
           {"statehash_shortstatehash"}}

\* Data constructed over a store in which a value of the wrong length was
\* written by hand under one key of the forward map of some tables, while
\* the other tables are empty; calls are made one at a time
InitCorrupt ==
    /\ \E ts \in {{"eventid_shorteventid", "statekey_shortstatekey"},
                   {"roomid_shortroomid", "statehash_shortstatehash"}} :
          db = [m \in MapNames |->
                  IF m \in ts
                  THEN MapInsert(EmptyMap, CHOOSE x \in ForwardKeys(m) : TRUE,
                                 CorruptValue(m))
                  ELSE EmptyMap]
    /\ count = 0
    /\ calls = [p \in Callers |-> IdleCall]
    /\ last = NoCall
    /\ serial = TRUE

SpecCorrupt == InitCorrupt /\ [][Next]_vars

\* lookups running against concurrent creates in their two tables
NextLookup ==
    \E p \in Callers :
        \/ \E t \in EventTypes, k \in StateKeys : get_shortstatekey(p, t, k)
        \/ \E t \in EventTypes, k \in StateKeys : get_or_create_shortstatekey_get(p, t, k)
        \/ get_or_create_shortstatekey_next_count(p)
        \/ get_or_create_shortstatekey_insert_forward(p)
        \/ get_or_create_shortstatekey_insert_reverse(p)
        \/ \E r \in RoomIds : get_shortroomid(p, r)
        \/ \E r \in RoomIds : get_or_create_shortroomid_get(p, r)
        \/ get_or_create_shortroomid_next_count(p)
        \/ get_or_create_shortroomid_insert(p)
        \/ \E op \in {"get_shortstatekey", "get_or_create_shortstatekey",
                       "get_shortroomid", "get_or_create_shortroomid"} : get_fails(p, op)
        \/ next_count_fails(p)
        \/ insert_fails(p)

SpecLookup == Init /\ [][NextLookup]_vars

\* the four get_or_create functions and the batch, called concurrently
NextCreate ==
    \E p \in Callers :
        \/ \E x \in EventIds : get_or_create_shorteventid_get(p, x)
        \/ get_or_create_shorteventid_next_count(p)
        \/ get_or_create_shorteventid_insert_forward(p)
        \/ get_or_create_shorteventid_insert_reverse(p)
        \/ \E ids \in Batches : multi_get_or_create_shorteventid_multi_get(p, ids)
        \/ multi_get_or_create_shorteventid_next_count(p)
        \/ multi_get_or_create_shorteventid_insert_forward(p)
        \/ multi_get_or_create_shorteventid_insert_reverse(p)
        \/ \E t \in EventTypes, k \in StateKeys : get_or_create_shortstatekey_get(p, t, k)
        \/ get_or_create_shortstatekey_next_count(p)
        \/ get_or_create_shortstatekey_insert_forward(p)
        \/ get_or_create_shortstatekey_insert_reverse(p)
        \/ \E h \in StateHashes : get_or_create_shortstatehash_get(p, h)
        \/ get_or_create_shortstatehash_next_count(p)
        \/ get_or_create_shortstatehash_insert(p)
        \/ \E r \in RoomIds : get_or_create_shortroomid_get(p, r)
        \/ get_or_create_shortroomid_next_count(p)
        \/ get_or_create_shortroomid_insert(p)
        \/ \E op \in {"get_or_create_shorteventid", "multi_get_or_create_shorteventid",
                       "get_or_create_shortstatekey", "get_or_create_shortstatehash",
                       "get_or_create_shortroomid"} : get_fails(p, op)
        \/ next_count_fails(p)
        \/ insert_fails(p)

SpecCreate == Init /\ [][NextCreate]_vars

TypeOK ==
    /\ count \in 0..MaxCount
    /\ \A p \in Callers : calls[p].pc \in {"idle", "next_count", "insert_forward", "insert_reverse"}
    /\ DOMAIN db = MapNames

(* ------------------------------- claims ------------------------------- *)
GetOrCreateOps == {"get_or_create_shorteventid", "get_or_create_shortstatekey",
                   "get_or_create_shortstatehash", "get_or_create_shortroomid"}

\* the store key a get_or_create call works on
CallKey(op, arg) ==
    IF op = "get_or_create_shortstatekey" THEN statekey_vec(arg[1], arg[2]) ELSE arg

\* the short id in the value a get_or_create call returned
ShortOf(op, val) == IF op = "get_or_create_shortstatehash" THEN val[1] ELSE val

\* last is the successful return of a call of op
ReturnedOk(op) == last.op = op /\ IsOk(last.ret)

AllIdle == \A p \in Callers : Idle(p)

\* C1: get_or_create_shorteventid(x) calls that run concurrently all return
\* the same short id: a call never returns an id other than the ids that
\* calls for the same x returned while it was in progress.
C1_ConcurrentCallsAgree ==
    [][\A p \in Callers :
          (/\ InProgress(p)
           /\ calls[p].op = "get_or_create_shorteventid"
           /\ calls'[p].pc = "idle"
           /\ last'.op = "get_or_create_shorteventid"
           /\ IsOk(last'.ret))
          => \A s \in calls[p].seen : s = last'.ret.val]_vars

\* the identifiers the reverse map of a table holds for short id s
ReverseOf(rev, s) == MapGet(db[rev], to_be_bytes(s))

NoTwoShortsFor(rev) ==
    \A s1, s2 \in Shorts :
        (s1 # s2 /\ ReverseOf(rev, s1).some /\ ReverseOf(rev, s2).some)
        => ReverseOf(rev, s1).bytes # ReverseOf(rev, s2).bytes

\* C2: the reverse maps of the event-id and state-key tables never hold two
\* distinct short ids for the same identifier.
C2_OneShortPerIdentifier ==
    NoTwoShortsFor("shorteventid_eventid") /\ NoTwoShortsFor("shortstatekey_statekey")

ForwardMaps == {"eventid_shorteventid", "statekey_shortstatekey",
                "roomid_shortroomid", "statehash_shortstatehash"}

\* C3: a forward entry x -> s, once stored, is stored unchanged in every
\* later state, in all four tables.
C3_ForwardEntriesPermanent ==
    [][\A n \in ForwardMaps : \A x \in DOMAIN db[n] :
          x \in DOMAIN db'[n] /\ db'[n][x] = db[n][x]]_vars

\* forward holds x -> s exactly when reverse holds s -> x
Inverses(fwd, rev) ==
    /\ \A x \in DOMAIN db[fwd] :
          MapGet(db[rev], db[fwd][x]) = Some(x)
    /\ \A b \in DOMAIN db[rev] :
          MapGet(db[fwd], db[rev][b]) = Some(b)

\* C4: when no call is in progress and no call has failed, the forward and
\* reverse maps of the event-id and of the state-key table are inverses.
C4_MapsAreInverses ==
    AllIdle => /\ Inverses("eventid_shorteventid", "shorteventid_eventid")
               /\ Inverses("statekey_shortstatekey", "shortstatekey_statekey")

\* C5: the short id s that get_or_create_shorteventid(x) returns decodes
\* back to x with get_eventid_from_short(s), and what get_eventid_from_short
\* decodes an id to stays what it is in every later state.
C5_EventRoundTrip ==
    [][/\ (last'.op = "get_or_create_shorteventid" /\ IsOk(last'.ret))
            => eventid_from(db'["shorteventid_eventid"], last'.ret.val) = Ok(last'.arg)
       /\ \A s \in Shorts :
            IsOk(eventid_from_short(s))
            => eventid_from(db'["shorteventid_eventid"], s) = eventid_from_short(s)]_vars

\* the forward map of a get_or_create function
ForwardOf(op) ==
    CASE op = "get_or_create_shorteventid" -> "eventid_shorteventid"
      [] op = "get_or_create_shortstatekey" -> "statekey_shortstatekey"
      [] op = "get_or_create_shortstatehash" -> "statehash_shortstatehash"
      [] op = "get_or_create_shortroomid" -> "roomid_shortroomid"

\* caller p starts a get_or_create call of op on key and misses
StartsMiss(p, op, key) ==
    /\ Idle(p)
    /\ calls'[p].pc # "idle"
    /\ calls'[p].op = op
    /\ calls'[p].key = key

\* a get_or_create call of op on key returns Ok in this step
ReturnsOk(op, key) ==
    /\ last'.op = op
    /\ IsOk(last'.ret)
    /\ CallKey(op, last'.arg) = key

\* C6: with calls made one at a time, in all four tables: a get_or_create(x)
\* that returns s leaves x -> s in the forward map, and a get_or_create(x)
\* that starts while the forward map holds x -> s returns s and mints
\* nothing: it takes no miss branch, leaves the counter and leaves all six
\* maps as they are. So the second of two sequential calls returns the id
\* of the first.
C6_Idempotent ==
    [][\A op \in GetOrCreateOps :
          /\ (last'.op = op /\ IsOk(last'.ret)) =>
                MapGet(db'[ForwardOf(op)], CallKey(op, last'.arg))
                    = Some(to_be_bytes(ShortOf(op, last'.ret.val)))
          /\ \A key \in DOMAIN db[ForwardOf(op)] :
                AllIdle =>
                    /\ \A p \in Callers : ~StartsMiss(p, op, key)
                    /\ ReturnsOk(op, key) =>
                          /\ to_be_bytes(ShortOf(op, last'.ret.val)) = db[ForwardOf(op)][key]
                          /\ count' = count
                          /\ db' = db]_vars

\* a get_or_create returned an id that was in the forward map before the
\* call: another id was minted after it
C6_Witness ==
    /\ serial
    /\ last.op \in GetOrCreateOps
    /\ IsOk(last.ret)
    /\ ShortOf(last.op, last.ret.val) < count
    /\ MapGet(db[ForwardOf(last.op)], CallKey(last.op, last.arg))
          = Some(to_be_bytes(ShortOf(last.op, last.ret.val)))

\* the short ids the event-id reverse map holds for identifier x
ShortsOf(x) == {s \in Shorts : ReverseOf("shorteventid_eventid", s) = Some(x)}

\* C7: a batch that names an identifier at two positions returns the same
\* short id at both, and one short id is stored for that identifier.
C7_BatchDuplicatesCollapse ==
    ReturnedOk("multi_get_or_create_shorteventid") =>
        \A i, j \in 1..Len(last.arg) :
            (i < j /\ last.arg[i] = last.arg[j]) =>
                /\ last.ret.val[i] = last.ret.val[j]
                /\ Cardinality(ShortsOf(last.arg[i])) <= 1

\* C8: a batch returns as many results as it was given identifiers, and at
\* every position the short id the forward map holds for that identifier
\* when the call returns.
C8_BatchPositional ==
    ReturnedOk("multi_get_or_create_shorteventid") =>
        /\ Len(last.ret.val) = Len(last.arg)
        /\ \A i \in 1..Len(last.arg) :
              MapGet(db["eventid_shorteventid"], last.arg[i]) = Some(to_be_bytes(last.ret.val[i]))

\* no map holds short id s, as a value or as a key
Unused(s) ==
    \A n \in MapNames :
        /\ to_be_bytes(s) \notin DOMAIN db[n]
        /\ \A x \in DOMAIN db[n] : db[n][x] # to_be_bytes(s)

\* C9: with calls made one at a time, get_or_create_shortstatehash(h)
\* returns already_existed = FALSE exactly when the forward map held no
\* entry for h before the call, and then the id is new and stored under h;
\* otherwise it returns TRUE with the stored id. A stored entry stays, so
\* every later call for h returns TRUE with the same id.
C9_ExistenceFlag ==
    [][/\ (last'.op = "get_or_create_shortstatehash" /\ IsOk(last'.ret)) =>
            LET h == last'.arg
                fwd == "statehash_shortstatehash"
                s == last'.ret.val[1]
                already_existed == last'.ret.val[2]
            IN  /\ already_existed <=> h \in DOMAIN db[fwd]
                /\ ~already_existed =>
                      /\ Unused(s)
                      /\ MapGet(db'[fwd], h) = Some(to_be_bytes(s))
                /\ already_existed =>
                      /\ MapGet(db[fwd], h) = Some(to_be_bytes(s))
                      /\ db' = db
       /\ \A h \in DOMAIN db["statehash_shortstatehash"] :
            MapGet(db'["statehash_shortstatehash"], h)
                = MapGet(db["statehash_shortstatehash"], h)]_vars

\* a repeated call returned (s, TRUE)
C9_Witness ==
    /\ serial
    /\ ReturnedOk("get_or_create_shortstatehash")
    /\ last.ret.val[2] = TRUE
    /\ MapGet(db["statehash_shortstatehash"], last.arg) = Some(to_be_bytes(last.ret.val[1]))

\* C10: when get_or_create_shortstatekey(t, k) returns s for a t without
\* the byte 0xFF, the reverse map holds t, 0xFF, k for s and
\* get_statekey_from_short(s) returns (t, k).
C10_StateKeyRoundTrip ==
    (/\ ReturnedOk("get_or_create_shortstatekey")
     /\ \A i \in 1..Len(last.arg[1]) : last.arg[1][i] # 255)
    => /\ ReverseOf("shortstatekey_statekey", last.ret.val)
            = Some(last.arg[1] \o <<255>> \o last.arg[2])
       /\ statekey_from_short(last.ret.val) = Ok(last.arg)

(* C11 *)
\* forward map n holds under x a value that is not 8 bytes long
Corrupt(n, x) == x \in DOMAIN db[n] /\ Len(db[n][x]) # 8

\* the functions that read a forward map, and the map each one reads
ForwardReaders == GetOrCreateOps \cup {"multi_get_or_create_shorteventid",
                                       "get_shortstatekey", "get_shortroomid"}

ForwardRead(op) ==
    CASE op \in GetOrCreateOps -> ForwardOf(op)
      [] op = "multi_get_or_create_shorteventid" -> "eventid_shorteventid"
      [] op = "get_shortstatekey" -> "statekey_shortstatekey"
      [] op = "get_shortroomid" -> "roomid_shortroomid"

\* the forward-map keys a call of op with argument arg looks up
KeysOf(op, arg) ==
    IF op = "multi_get_or_create_shorteventid" THEN {arg[i] : i \in 1..Len(arg)}
    ELSE IF arg = <<>> THEN {}
    ELSE IF op \in {"get_or_create_shortstatekey", "get_shortstatekey"}
         THEN {statekey_vec(arg[1], arg[2])}
    ELSE {arg}

\* a batch of caller p ends in this step because a counter or store
\* operation failed
BatchOperationFails(p) ==
    /\ calls[p].op = "multi_get_or_create_shorteventid"
    /\ calls[p].pc \in {"next_count", "insert_forward", "insert_reverse"}
    /\ calls'[p].pc = "idle"
    /\ last'.ret \in {Err("Counter"), Err("Store")}
    /\ db' = db

\* C11: while a forward map holds under x a value that is not 8 bytes long,
\* every get_or_create, every lookup and every batch that looks x up ends
\* with the bad-database error and returns no short id (a batch may end
\* with the error of a counter or store operation that failed before it
\* reached x), no get_or_create takes its miss branch for x, and the value
\* stored under x is never replaced.
C11_CorruptionDetected ==
    [][/\ \A n \in ForwardMaps : \A x \in DOMAIN db[n] :
             Corrupt(n, x) => (x \in DOMAIN db'[n] /\ db'[n][x] = db[n][x])
       /\ \A op \in GetOrCreateOps : \A x \in DOMAIN db[ForwardOf(op)] :
             Corrupt(ForwardOf(op), x) => \A p \in Callers : ~StartsMiss(p, op, x)
       /\ (/\ last'.op \in ForwardReaders
           /\ \E x \in KeysOf(last'.op, last'.arg) : Corrupt(ForwardRead(last'.op), x))
          => \/ last'.ret = Err("BadDatabase")
             \/ \E p \in Callers : BatchOperationFails(p)]_vars

\* a batch created the entries of its first identifier and then ended with
\* the bad-database error at its second, whose stored value is not 8 bytes
C11_Witness ==
    /\ last.op = "multi_get_or_create_shorteventid"
    /\ last.ret = Err("BadDatabase")
    /\ Len(last.arg) = 2
    /\ Corrupt("eventid_shorteventid", last.arg[2])
    /\ MapGet(db["eventid_shorteventid"], last.arg[1]) = Some(to_be_bytes(count))

(* C12 *)
\* identifier x is stored in no map of the table of op, as a key or a value
NothingStoredFor(op, x) ==
    \A n \in MapNames :
        (\E t \in Tables : n \in t /\ ForwardOf(op) \in t) =>
            /\ x \notin DOMAIN db[n]
            /\ \A b \in DOMAIN db[n] : db[n][b] # x

\* C12: with calls made one at a time, a get_or_create that misses writes
\* nothing before it asks for an id, and when next_count fails the call
\* ends with the error at once: the step changes no map and not the
\* counter, and nothing is stored for the identifier in the table.
C12_CounterFailureWritesNothing ==
    [][\A p \in Callers : \A op \in GetOrCreateOps :
          /\ \A x \in ForwardKeys(ForwardOf(op)) : StartsMiss(p, op, x) => db' = db
          /\ (At(p, op, "next_count") /\ calls'[p].pc = "idle") =>
                /\ last'.op = op
                /\ last'.arg = calls[p].arg
                /\ IsErr(last'.ret)
                /\ db' = db
                /\ count' = count
                /\ NothingStoredFor(op, calls[p].key)']_vars

\* a get_or_create ended with the counter's error after other identifiers
\* were interned, and nothing is stored for its identifier
C12_Witness ==
    /\ serial
    /\ last.op \in GetOrCreateOps
    /\ last.ret = Err("Counter")
    /\ count > 0
    /\ NothingStoredFor(last.op, CallKey(last.op, last.arg))

(* C13 *)
\* a call in progress holds short id s
Held(s) == \E p \in Callers : calls[p].pc \in {"insert_forward", "insert_reverse"}
                               /\ calls[p].short = s

\* the short ids in the value a call returned
ReturnedShorts(l) ==
    IF ~IsOk(l.ret) THEN {}
    ELSE IF l.op \in GetOrCreateOps THEN {ShortOf(l.op, l.ret.val)}
    ELSE IF l.op = "multi_get_or_create_shorteventid"
         THEN {l.ret.val[i] : i \in 1..Len(l.ret.val)}
    ELSE IF l.op \in {"get_shortstatekey", "get_shortroomid"}
         THEN {l.ret.val[i] : i \in 1..Len(l.ret.val)}
    ELSE {}

\* C13: when a store write of a get_or_create that holds the new id s
\* fails, s is stored in no map afterwards; and an id that was handed out
\* by the counter, is held by no call and is stored in no map stays out of
\* every map and is returned by no call.
C13_BurnedIdsLost ==
    [][/\ \A p \in Callers : \A s \in Shorts :
            (/\ calls[p].op \in GetOrCreateOps
             /\ calls[p].pc \in {"insert_forward", "insert_reverse"}
             /\ calls[p].short = s
             /\ calls'[p].pc = "idle"
             /\ IsErr(last'.ret))
            => Unused(s)'
       /\ \A s \in Shorts :
            (s <= count /\ ~Held(s) /\ Unused(s))
            => (Unused(s)' /\ s \notin ReturnedShorts(last'))]_vars

(* C14 *)
LookupOps == {"get_shortstatekey", "get_shortroomid"}

\* C14: a step in which get_shortstatekey or get_shortroomid returns
\* changes no map and not the counter; when the store read succeeded the
\* result is nothing if the forward map holds no entry for the identifier,
\* and the stored short id if it holds one (8 bytes long).
C14_LookupPureRead ==
    [][last'.op \in LookupOps =>
          /\ db' = db
          /\ count' = count
          /\ \A q \in Callers : calls'[q].pc = calls[q].pc
          /\ \A x \in KeysOf(last'.op, last'.arg) :
                LET found == MapGet(db[ForwardRead(last'.op)], x)
                IN  IF ~found.some THEN last'.ret = Ok(<<>>)
                    ELSE Len(found.bytes) = 8 =>
                            /\ IsOk(last'.ret)
                            /\ Len(last'.ret.val) = 1
                            /\ to_be_bytes(last'.ret.val[1]) = found.bytes]_vars

\* a lookup returned the stored id while a create is in progress
C14_Witness ==
    /\ ~serial
    /\ last.op \in LookupOps
    /\ IsOk(last.ret)
    /\ Len(last.ret.val) = 1
    /\ \E p \in Callers : InProgress(p)
    /\ \A x \in KeysOf(last.op, last.arg) :
          MapGet(db[ForwardRead(last.op)], x) = Some(to_be_bytes(last.ret.val[1]))

(* C15 *)
\* the reverse map of a forward map, none for the two single-map tables
ReverseMapOf(fwd) ==
    CASE fwd = "eventid_shorteventid" -> {"shorteventid_eventid"}
      [] fwd = "statekey_shortstatekey" -> {"shortstatekey_statekey"}
      [] OTHER -> {}

\* the (table, identifier) pairs short id s is stored for: as the value of
\* a forward entry or as the key of a reverse entry
StoredFor(s) ==
    {pair \in UNION {{<<n, x>> : x \in ForwardKeys(n)} : n \in ForwardMaps} :
        \/ MapGet(db[pair[1]], pair[2]) = Some(to_be_bytes(s))
        \/ \E rev \in ReverseMapOf(pair[1]) :
              MapGet(db[rev], to_be_bytes(s)) = Some(pair[2])}

\* C15: in every state, whatever the interleaving of get_or_create calls
\* and batches on the four tables and whichever store or counter
\* operations failed, a short id is stored for at most one (table,
\* identifier) pair.
C15_ShortIdsUnique == \A s \in Shorts : Cardinality(StoredFor(s)) <= 1

\* with concurrent callers, two ids are stored, in different tables
C15_Witness ==
    /\ ~serial
    /\ AllIdle
    /\ \E s1, s2 \in Shorts :
          \E pair1 \in StoredFor(s1), pair2 \in StoredFor(s2) :
              s1 # s2 /\ pair1[1] # pair2[1]

(* C16 *)
\* get_or_create_shorteventid called on ids[i], ids[i + 1], ... in order,
\* no operation failing, when the forward map holds the ids known and the
\* counter is c: the results after ret, the forward entries and the counter
RECURSIVE singles(_, _, _, _, _)
singles(ids, i, known, c, ret) ==
    IF i > Len(ids) THEN [ret |-> ret, known |-> known, count |-> c]
    ELSE IF ids[i] \in DOMAIN known
         THEN singles(ids, i + 1, known, c, Append(ret, known[ids[i]]))
    ELSE singles(ids, i + 1, MapInsert(known, ids[i], c + 1), c + 1, Append(ret, c + 1))

\* the batch that returns in this step, whose multi_get returned got, ends
\* as the single calls on its identifiers would have: the batch asked the
\* counter once per None in got, which gives the counter it started from
BatchAsSingles(got) ==
    LET ids == last'.arg
        hit == {i \in 1..Len(ids) : got[i].some}
        known == [x \in {ids[i] : i \in hit} |->
                    BeValue(got[CHOOSE i \in hit : ids[i] = x].bytes)]
        c0 == count' - (Len(ids) - Cardinality(hit))
        e == singles(ids, 1, known, c0, <<>>)
    IN  /\ last'.ret.val = e.ret
        /\ count' = e.count
        /\ \A x \in DOMAIN e.known :
              MapGet(db'["eventid_shorteventid"], x) = Some(to_be_bytes(e.known[x]))
        /\ \A s \in Shorts :
              s > c0 =>
                IF s <= e.count
                THEN \E x \in DOMAIN e.known :
                        /\ e.known[x] = s
                        /\ MapGet(db'["shorteventid_eventid"], to_be_bytes(s)) = Some(x)
                ELSE to_be_bytes(s) \notin DOMAIN db'["shorteventid_eventid"]

\* C16: with calls made one at a time, a batch that returns its results
\* returns what get_or_create_shorteventid called on each identifier in
\* order would have returned from the same store and counter, and leaves
\* the same forward entries, reverse entries and counter.
C16_BatchIsRepeatedSingles ==
    [][(/\ serial
        /\ last'.op = "multi_get_or_create_shorteventid"
        /\ IsOk(last'.ret))
       => /\ AllIdle => BatchAsSingles(MapMultiGet(db["eventid_shorteventid"], last'.arg))
          /\ \A p \in Callers : InProgress(p) => BatchAsSingles(calls[p].got)]_vars

(* C17 *)
\* the functions that write a forward and a reverse map
PairOps == {"get_or_create_shorteventid", "multi_get_or_create_shorteventid",
            "get_or_create_shortstatekey"}

PairForward(op) ==
    IF op = "get_or_create_shortstatekey" THEN "statekey_shortstatekey"
    ELSE "eventid_shorteventid"

PairReverse(op) ==
    IF op = "get_or_create_shortstatekey" THEN "shortstatekey_statekey"
    ELSE "shorteventid_eventid"

\* every identifier stored in map rev is a key of map fwd
ReverseWithinForward(fwd, rev) ==
    \A b \in DOMAIN db[rev] : db[rev][b] \in DOMAIN db[fwd]

\* C17: a create obtains its id, then writes the forward entry, then the
\* reverse entry: a call about to write the forward entry holds an id the
\* counter handed out and no reverse entry exists for that id; a call about
\* to write the reverse entry finds its identifier in the forward map. So
\* in every state, in the middle of concurrent calls and after failed
\* writes too, every identifier stored in a reverse map of the event-id or
\* state-key table is a key of the forward map.
C17_ForwardBeforeReverse ==
    /\ ReverseWithinForward("eventid_shorteventid", "shorteventid_eventid")
    /\ ReverseWithinForward("statekey_shortstatekey", "shortstatekey_statekey")
    /\ \A p \in Callers :
          calls[p].op \in PairOps =>
            /\ calls[p].pc \in {"insert_forward", "insert_reverse"} =>
                  /\ calls[p].short \in 1..count
                  /\ to_be_bytes(calls[p].short) \notin DOMAIN db[PairReverse(calls[p].op)]
            /\ calls[p].pc = "insert_reverse" =>
                  calls[p].key \in DOMAIN db[PairForward(calls[p].op)]

\* a call has written its forward entry and not yet its reverse entry,
\* beside a forward entry whose reverse write failed
C17_Witness ==
    /\ ~serial
    /\ \E p \in Callers :
          /\ calls[p].op \in PairOps
          /\ calls[p].pc = "insert_reverse"
          /\ \E x \in DOMAIN db[PairForward(calls[p].op)] :
                /\ x # calls[p].key
                /\ \A q \in Callers : Idle(q) \/ q = p
                /\ \A b \in DOMAIN db[PairReverse(calls[p].op)] :
                      db[PairReverse(calls[p].op)][b] # x

(* C18 *)
\* the maps of the table a function belongs to
OpMaps(op) ==
    CASE op \in {"get_or_create_shorteventid", "multi_get_or_create_shorteventid",
                 "get_eventid_from_short"} ->
            {"eventid_shorteventid", "shorteventid_eventid"}
      [] op \in {"get_shortstatekey", "get_or_create_shortstatekey",
                 "get_statekey_from_short"} ->
            {"statekey_shortstatekey", "shortstatekey_statekey"}
      [] op \in {"get_shortroomid", "get_or_create_shortroomid"} -> {"roomid_shortroomid"}
      [] op = "get_or_create_shortstatehash" -> {"statehash_shortstatehash"}
      [] OTHER -> {}

\* the maps outside the table of op are what they were
OthersUnchanged(op) == \A n \in MapNames \ OpMaps(op) : db'[n] = db[n]

\* C18: every step of a function leaves the maps of the other tables as
\* they are (for get_or_create_shortroomid and get_or_create_shortstatehash
\* that is every map but their forward map), no map changes but in a step
\* of a call that is past its get, and whether a get_or_create hits or
\* misses is decided by the forward map of its own table.
C18_TableIsolation ==
    [][/\ \A p \in Callers :
            /\ (InProgress(p) /\ calls'[p].pc # calls[p].pc) => OthersUnchanged(calls[p].op)
            /\ (Idle(p) /\ calls'[p].pc # "idle") => db' = db
            /\ \A op \in GetOrCreateOps : \A x \in ForwardKeys(ForwardOf(op)) :
                  /\ StartsMiss(p, op, x) => x \notin DOMAIN db[ForwardOf(op)]
                  /\ (Idle(p) /\ AllIdle /\ ReturnsOk(op, x)) =>
                        MapGet(db[ForwardOf(op)], x)
                            = Some(to_be_bytes(ShortOf(op, last'.ret.val)))
       /\ last'.op # "none" => OthersUnchanged(last'.op)
       /\ db' # db => \E p \in Callers :
                          /\ calls[p].pc \in {"insert_forward", "insert_reverse"}
                          /\ calls'[p].pc # calls[p].pc]_vars

\* get_or_create_shortroomid or get_or_create_shortstatehash stored a new
\* id while the event-id or state-key table holds entries
C18_Witness ==
    /\ last.op \in {"get_or_create_shortroomid", "get_or_create_shortstatehash"}
    /\ IsOk(last.ret)
    /\ ShortOf(last.op, last.ret.val) = count
    /\ MapGet(db[ForwardOf(last.op)], last.arg) = Some(to_be_bytes(count))
    /\ \E n \in MapNames \ OpMaps(last.op) : db[n] # EmptyMap

(* C19 *)
\* C19: in the state in which get_or_create_shorteventid or
\* get_or_create_shortstatekey returns a short id, the reverse map of the
\* table holds an entry for that id, so get_eventid_from_short /
\* get_statekey_from_short called at once does not fail.
C19_ReverseEntryAtReturn ==
    /\ ReturnedOk("get_or_create_shorteventid") =>
          /\ ReverseOf("shorteventid_eventid", last.ret.val).some
          /\ IsOk(eventid_from_short(last.ret.val))
    /\ ReturnedOk("get_or_create_shortstatekey") =>
          /\ ReverseOf("shortstatekey_statekey", last.ret.val).some
          /\ IsOk(statekey_from_short(last.ret.val))

(* C20 *)
\* after the step, the event-id table holds the pair x <-> s
PairKept(x, s) ==
    /\ MapGet(db'["eventid_shorteventid"], x) = Some(to_be_bytes(s))
    /\ MapGet(db'["shorteventid_eventid"], to_be_bytes(s)) = Some(x)

\* the batch c has created the pairs of its missed positions below i
PairsKeptBelow(c, i) ==
    \A h \in 1..(i - 1) : ~c.got[h].some => PairKept(c.arg[h], c.acc[h])

\* no entry exists for the missed identifiers of batch c at positions from
\* j on, unless the identifier also stands at a position below i
NothingCreatedFrom(c, i, j) ==
    \A k \in j..Len(c.arg) :
        (~c.got[k].some /\ \A h \in 1..(i - 1) : c.arg[h] # c.arg[k])
        => c.arg[k] \notin DOMAIN db'["eventid_shorteventid"]

\* C20: when a batch ends because next_count failed at position j, or
\* because the value stored for position j is not 8 bytes long, it returns
\* the error, every position below j that missed has its forward and its
\* reverse entry with the id created for it, and (calls made one at a time)
\* no entry exists for a missed identifier at a position from j on.
C20_FailedBatchKeepsPairs ==
    [][\A p \in Callers :
          LET c == calls[p]
              op == "multi_get_or_create_shorteventid"
          IN  /\ (/\ At(p, op, "next_count")
                   /\ calls'[p].pc = "idle")
                  => /\ last'.ret = Err("Counter")
                     /\ db' = db
                     /\ PairsKeptBelow(c, c.i)
                     /\ serial => NothingCreatedFrom(c, c.i, c.i)
              /\ (/\ At(p, op, "insert_reverse")
                   /\ calls'[p].pc = "idle"
                   /\ last'.op = op
                   /\ last'.ret = Err("BadDatabase"))
                  => /\ PairsKeptBelow(c, c.i)
                     /\ PairKept(c.key, c.short)
                     /\ serial => NothingCreatedFrom(c, c.i + 1,
                                      multi_loop(c.got, c.i + 1, <<>>).at)
              /\ (/\ AllIdle
                   /\ last'.op = op
                   /\ last'.ret = Err("BadDatabase"))
                  => db' = db]_vars

====
